---- MODULE Spec2Model ----
(***************************************************************************)
(* The AlphaZero-Gomoku training pipeline of train_mxnet.py                *)
(* (class TrainPipeline): symmetry augmentation, the bounded replay         *)
(* buffer, the KL-adaptive policy update, the periodic evaluation with      *)
(* baseline escalation, and the cycle loop of run().                        *)
(*                                                                          *)
(* Representation of the numbers the code holds as floats:                  *)
(*   - lr_multiplier and learn_rate are exact rationals <<num, den>> in     *)
(*     lowest terms (the code multiplies and divides by 1.5 only);          *)
(*   - win ratios are whole percents: 1.0*(w + 0.5*t)/n_games, times 100;   *)
(*   - a KL divergence is a natural number, in units of kl_targ/conf.kl_targ.*)
(* Arrays are sequences: a matrix is a sequence of rows, a state tensor a   *)
(* sequence of matrices (planes), a flattened vector a sequence of cells.   *)
(***************************************************************************)
EXTENDS Integers, Sequences, FiniteSets, TLC

VARIABLES
  conf,                   \* the configuration dictionary given to __init__
  training_data,          \* self._training_data: the shuffled opening pool
  data_buffer,            \* self.data_buffer: deque(maxlen = buffer_size)
  episode_len,            \* self.episode_len
  lr_multiplier,          \* self.lr_multiplier, <<num, den>>
  best_win_ratio,         \* self.best_win_ratio, in percent
  pure_mcts_playout_num,  \* self.pure_mcts_playout_num
  i,                      \* run(): the loop variable, the cycle index
  pc,                     \* run(): the position of control
  files_played,           \* the file_name arguments given to start_self_play
  best_policies,          \* the i of every best_policy_<i> checkpoint saved
  episode_data,           \* collect_selfplay_data: the local play_data
  mini_batch,             \* policy_update: positions random.sample selected
  learn_rate,             \* policy_update: the local learn_rate, <<num, den>>
  epoch,                  \* policy_update: train steps performed so far
  kl,                     \* policy_update: the KL measured by the last epoch
  win_ratio,              \* run(): the local win_ratio, in percent
  save_model,             \* the save_model request made by the last step
  old_probs,              \* policy_update: train steps behind the old_probs snapshot
  loss,                   \* policy_update: the epoch whose loss and entropy are held
  run_loss,               \* run(): the epoch of the loss, entropy last returned
  eval_frame,             \* policy_evaluate: n_games, the loop variable i, win_cnt
  games_log,              \* the <<start_player, winner>> of every start_play call
  extend_log,             \* buffer specification: every sample extended, in order
  equi_in,                \* augmentation specification: the play_data argument
  equi_out                \* augmentation specification: the returned extend_data

vars == <<conf, training_data, data_buffer, episode_len, lr_multiplier,
          best_win_ratio, pure_mcts_playout_num, i, pc, files_played,
          best_policies, episode_data, mini_batch, learn_rate, epoch, kl,
          win_ratio, save_model, old_probs, loss, run_loss, eval_frame,
          games_log, extend_log, equi_in, equi_out>>

pipelineVars == <<conf, training_data, episode_len, lr_multiplier,
                  best_win_ratio, pure_mcts_playout_num, i, pc, files_played,
                  best_policies, episode_data, mini_batch, learn_rate, epoch,
                  kl, win_ratio, save_model, old_probs, loss, run_loss,
                  eval_frame, games_log>>

equiVars == <<equi_in, equi_out>>

None == "None"

(***************************************************************************)
(* numpy on matrices                                                        *)
(***************************************************************************)
Reverse(s) == [j \in 1..Len(s) |-> s[Len(s) + 1 - j]]

\* np.flipud(m): the rows in reverse order
flipud(m) == Reverse(m)

\* np.fliplr(m): every row reversed
fliplr(m) == [r \in 1..Len(m) |-> Reverse(m[r])]

\* np.transpose(m) of a matrix with at least one row
transpose(m) ==
  [c \in 1..Len(m[1]) |-> [r \in 1..Len(m) |-> m[r][c]]]

\* np.rot90(m, k), axes (0, 1): k is taken modulo 4; k = 1 is
\* transpose(flip(m, 1)), k = 2 is flip(flip(m, 0), 1), k = 3 is
\* flip(transpose(m), 1), k = 0 is m itself
rot90(m, k) ==
  CASE k % 4 = 0 -> m
    [] k % 4 = 1 -> transpose(fliplr(m))
    [] k % 4 = 2 -> fliplr(flipud(m))
    [] k % 4 = 3 -> fliplr(transpose(m))

\* v.reshape(h, w): row-major
reshape(v, h, w) ==
  [r \in 1..h |-> [c \in 1..w |-> v[(r - 1) * w + c]]]

\* m.flatten(): row-major
RECURSIVE flatten(_)
flatten(m) ==
  IF m = <<>> THEN <<>> ELSE Head(m) \o flatten(Tail(m))

(***************************************************************************)
(* get_equi_data                                                            *)
(***************************************************************************)
\* lines 100-105: the sample appended for rotation step k
RotatedSample(triple, k, h, w) ==
  LET equi_state == [p \in 1..Len(triple[1]) |-> rot90(triple[1][p], k)]
      equi_mcts_prob == rot90(flipud(reshape(triple[2], h, w)), k)
  IN  <<equi_state, flatten(flipud(equi_mcts_prob)), triple[3]>>

\* mutant: the state is flipped horizontally, the probabilities are not
FlippedSampleStateOnly(triple, k, h, w) ==
  LET rot_state == [p \in 1..Len(triple[1]) |-> rot90(triple[1][p], k)]
      equi_state == [p \in 1..Len(rot_state) |-> fliplr(rot_state[p])]
      equi_mcts_prob == rot90(flipud(reshape(triple[2], h, w)), k)
  IN  <<equi_state, flatten(flipud(equi_mcts_prob)), triple[3]>>

\* lines 107-111: the sample appended after the horizontal flip
FlippedSample(triple, k, h, w) ==
  LET rot_state == [p \in 1..Len(triple[1]) |-> rot90(triple[1][p], k)]
      equi_state == [p \in 1..Len(rot_state) |-> fliplr(rot_state[p])]
      equi_mcts_prob == fliplr(rot90(flipud(reshape(triple[2], h, w)), k))
  IN  <<equi_state, flatten(flipud(equi_mcts_prob)), triple[3]>>

\* lines 98-111: the inner loop, for i in [1, 2, 3, 4]
RECURSIVE EquiOfTriple(_, _, _, _)
EquiOfTriple(triple, ks, h, w) ==
  IF ks = <<>> THEN <<>>
  ELSE <<RotatedSample(triple, Head(ks), h, w),
         FlippedSample(triple, Head(ks), h, w)>>
       \o EquiOfTriple(triple, Tail(ks), h, w)

RotationSteps == <<1, 2, 3, 4>>

RECURSIVE get_equi_data(_, _, _)
get_equi_data(play_data, h, w) ==
  IF play_data = <<>> THEN <<>>
  ELSE EquiOfTriple(Head(play_data), RotationSteps, h, w)
       \o get_equi_data(Tail(play_data), h, w)

(***************************************************************************)
(* collections.deque(maxlen = n)                                            *)
(***************************************************************************)
\* mutant: no eviction, the deque grows without bound
DequeAppendUnbounded(d, x, maxlen) == Append(d, x)

\* mutant: a full deque refuses the new element and keeps its oldest
DequeAppendDropNew(d, x, maxlen) ==
  IF maxlen = 0 THEN <<>>
  ELSE IF Len(d) = maxlen THEN d
  ELSE Append(d, x)

\* mutant: eviction starts one element late
DequeAppendOffByOne(d, x, maxlen) ==
  IF maxlen = 0 THEN <<>>
  ELSE IF Len(d) > maxlen THEN Append(Tail(d), x)
  ELSE Append(d, x)

\* deque.append on a bounded deque: a full deque drops its leftmost element;
\* a deque of maxlen 0 stays empty
DequeAppend(d, x, maxlen) ==
  IF maxlen = 0 THEN <<>>
  ELSE IF Len(d) = maxlen THEN Append(Tail(d), x)
  ELSE Append(d, x)

\* deque.extend(items): append the items one by one, left to right
RECURSIVE DequeExtend(_, _, _)
DequeExtend(d, items, maxlen) ==
  IF items = <<>> THEN d
  ELSE DequeExtend(DequeAppend(d, Head(items), maxlen), Tail(items), maxlen)

(***************************************************************************)
(* Exact rationals <<num, den>>, den > 0, in lowest terms                   *)
(***************************************************************************)
RECURSIVE GCD(_, _)
GCD(a, b) == IF b = 0 THEN a ELSE GCD(b, a % b)

Rat(n, d) == LET g == GCD(n, d) IN <<n \div g, d \div g>>
RatMul(x, y) == Rat(x[1] * y[1], x[2] * y[2])
RatDiv(x, y) == Rat(x[1] * y[2], x[2] * y[1])
RatLess(x, y) == x[1] * y[2] < y[1] * x[2]

(***************************************************************************)
(* Constants of the program text                                            *)
(***************************************************************************)
LrFactor == <<3, 2>>          \* 1.5, lines 170 and 172
LrLow == <<5, 100>>           \* 0.05, line 169
LrHigh == <<20, 1>>           \* 20, line 171
SaveFreq == 50                \* line 232
EvalGames == 10               \* policy_evaluate's default n_games, line 194
WinThreshold == 98            \* 0.98 in percent, line 242
PlayoutCeiling == 8000        \* line 243
PlayoutStep == 1000           \* line 244

(***************************************************************************)
(* Bounds of the model                                                      *)
(***************************************************************************)
MaxEpisodeLen == 2     \* raw triples of one self-play episode: 1..MaxEpisodeLen
MaxPool == 2           \* files in the opening pool: 1..MaxPool
MaxCap == 3            \* buffer specification: maxlen in 0..MaxCap
MaxExtend == 2         \* buffer specification: samples of one extend call
MaxLog == 6            \* buffer specification: samples extended in total
MaxTriples == 2        \* augmentation specification: triples of a game record

(***************************************************************************)
(* Configurations (conf/train_config.yaml is read by __init__)              *)
(***************************************************************************)
BaseConf ==
  [board_width |-> 2, board_height |-> 2, learn_rate |-> <<1, 500>>,
   lr_multiplier |-> <<1, 1>>, buffer_size |-> 9, batch_size |-> 8,
   epochs |-> 2, kl_targ |-> 4, check_freq |-> 1, game_batch_num |-> 2,
   pure_mcts_playout_num |-> 7000]

\* evaluation after every cycle; the first collection may leave the buffer
\* at the batch size
EvalConfs ==
  {[BaseConf EXCEPT !.pure_mcts_playout_num = p] : p \in {7000, 7500}}

\* a long run: many updates, a routine checkpoint, one evaluation at the end
LongConf ==
  [BaseConf EXCEPT !.buffer_size = 2, !.batch_size = 1, !.epochs = 1,
                   !.check_freq = 50, !.game_batch_num = 50,
                   !.pure_mcts_playout_num = 8000]

\* runs of evaluations only: the buffer never exceeds the batch size, and
\* the baseline starts two steps below, one step below and at the ceiling
CeilingConfs ==
  {[BaseConf EXCEPT !.buffer_size = 1, !.batch_size = 1, !.epochs = 1,
                    !.game_batch_num = 4, !.pure_mcts_playout_num = p] :
     p \in {6000, 7000, 8000}}

\* a run of no cycle at all
EmptyConf == [BaseConf EXCEPT !.game_batch_num = 0]

\* the end-to-end scenario: capacity 10, batch size 4
ScenarioConf ==
  [BaseConf EXCEPT !.buffer_size = 10, !.batch_size = 4, !.epochs = 1,
                   !.check_freq = 3, !.game_batch_num = 3,
                   !.pure_mcts_playout_num = 1000]

\* lines 39-65: the fields __init__ copies from conf
board_width == conf.board_width
board_height == conf.board_height
buffer_size == conf.buffer_size
batch_size == conf.batch_size
epochs == conf.epochs
kl_targ == conf.kl_targ
check_freq == conf.check_freq
game_batch_num == conf.game_batch_num

\* lines 86-90: the .sgf files of the directory, shuffled once
FileOrder == <<"a.sgf", "b.sgf", "c.sgf">>
Listing(n) == {FileOrder[j] : j \in 1..n}
Shuffles(n) ==
  {s \in [1..n -> Listing(n)] : \A f \in Listing(n) : \E j \in 1..n : s[j] = f}

(***************************************************************************)
(* The collaborators' results, drawn from small sets                        *)
(***************************************************************************)
\* Game.start_self_play: the game record of cycle ti with n moves. Its
\* arrays are labelled by the move number and the cycle, so that every
\* sample of a run is told from every other.
Label(ti, t, cells) ==
  [j \in 1..cells |-> IF j = 1 THEN t ELSE IF j = 2 THEN 0 - (ti + 1) ELSE 0]
OneHot(t, cells) == [j \in 1..cells |-> IF j = ((t - 1) % cells) + 1 THEN 1 ELSE 0]
start_self_play(ti, n, h, w) ==
  [t \in 1..n |->
     <<<<reshape(Label(ti, t, h * w), h, w)>>,
       OneHot(t, h * w),
       IF t % 2 = n % 2 THEN 1 ELSE 0 - 1>>]

\* the KL divergences an epoch may measure: on both sides of kl_targ / 2,
\* of kl_targ * 2 and of kl_targ * 4
KLValues ==
  {kl_targ \div 2 - 1, kl_targ \div 2, kl_targ * 2, kl_targ * 2 + 1,
   kl_targ * 4, kl_targ * 4 + 1}

(***************************************************************************)
(* __init__                                                                 *)
(***************************************************************************)
\* at "next", the head of the for loop before its first iteration, the loop
\* variable i is not bound yet, which is written -1
PipelineAt(c, pool, at) ==
  /\ conf = c
  /\ lr_multiplier = c.lr_multiplier
  /\ data_buffer = <<>>
  /\ episode_len = None
  /\ best_win_ratio = 0
  /\ pure_mcts_playout_num = c.pure_mcts_playout_num
  /\ training_data = pool
  /\ i = IF at = "next" THEN 0 - 1 ELSE 0
  /\ pc = at
  /\ files_played = <<>>
  /\ episode_data = None
  /\ mini_batch = {}
  /\ learn_rate = None
  /\ epoch = 0
  /\ kl = None
  /\ win_ratio = None
  /\ save_model = None
  /\ best_policies = {}
  /\ old_probs = None
  /\ loss = None
  /\ run_loss = None

\* the runs checked: the short runs over a pool of one file, the long run
\* over every shuffled pool of 1..MaxPool files
Setups ==
  {<<c, pool>> : c \in EvalConfs \cup CeilingConfs \cup {EmptyConf},
                  pool \in Shuffles(1)}
    \cup {<<LongConf, pool>> : pool \in UNION {Shuffles(n) : n \in 1..MaxPool}}

\* lines 219-220: run() has entered the try block and is at the head of the
\* for loop
InitPipeline(c, pool) == PipelineAt(c, pool, "next")

Idle ==
  /\ eval_frame = None
  /\ games_log = <<>>
  /\ extend_log = <<>>
  /\ equi_in = <<>>
  /\ equi_out = None

Init ==
  /\ \E setup \in Setups : InitPipeline(setup[1], setup[2])
  /\ Idle

(***************************************************************************)
(* collect_selfplay_data(1, training_index = i), lines 114-128              *)
(***************************************************************************)
\* mutant: the pool is entered one position late
DataIndexNext(training_index, length) == (training_index + 1) % length

\* line 116
DataIndex(training_index, length) == training_index % length

\* lines 116-118: Game.start_self_play is called with the file of the cycle
start_self_play_call ==
  /\ pc = "collect"
  /\ LET data_index == DataIndex(i, Len(training_data))
     IN  files_played' = Append(files_played, training_data[data_index + 1])
  /\ pc' = "playing"
  /\ save_model' = None
  /\ UNCHANGED <<conf, training_data, data_buffer, episode_len, lr_multiplier,
                 best_win_ratio, pure_mcts_playout_num, i, best_policies,
                 episode_data, mini_batch, learn_rate, epoch, kl, win_ratio,
                 old_probs, loss, run_loss, eval_frame, games_log, extend_log,
                 equi_in, equi_out>>

\* lines 118-124: the game ends after n moves; play_data and episode_len are set
StartSelfPlayReturns(n) ==
  /\ pc = "playing"
  /\ episode_data' = start_self_play(i, n, board_height, board_width)
  /\ episode_len' = Len(episode_data')
  /\ pc' = "augment"
  /\ save_model' = None
  /\ UNCHANGED <<conf, training_data, data_buffer, lr_multiplier,
                 best_win_ratio, pure_mcts_playout_num, i, files_played,
                 best_policies, mini_batch, learn_rate, epoch, kl, win_ratio,
                 old_probs, loss, run_loss, eval_frame, games_log, extend_log,
                 equi_in, equi_out>>

start_self_play_return == \E n \in 1..MaxEpisodeLen : StartSelfPlayReturns(n)

\* lines 126-128: the record is augmented, the buffer extended, and
\* collect_selfplay_data returns
extend_data_buffer ==
  /\ pc = "augment"
  /\ data_buffer' =
       DequeExtend(data_buffer,
                   get_equi_data(episode_data, board_height, board_width),
                   buffer_size)
  /\ episode_data' = None
  /\ pc' = "update"
  /\ save_model' = None
  /\ UNCHANGED <<conf, training_data, episode_len, lr_multiplier,
                 best_win_ratio, pure_mcts_playout_num, i, files_played,
                 best_policies, mini_batch, learn_rate, epoch, kl, win_ratio,
                 old_probs, loss, run_loss, eval_frame, games_log, extend_log,
                 equi_in, equi_out>>

(***************************************************************************)
(* policy_update, lines 146-192, behind the guard of line 226               *)
(***************************************************************************)
\* mutant: the update also runs on a buffer of exactly one batch
ShouldUpdateAtBatch == Len(data_buffer) >= batch_size

\* mutant: the update runs whatever the buffer holds
ShouldUpdateAlways == Len(data_buffer) >= 0

\* line 226
ShouldUpdate == Len(data_buffer) > batch_size

\* random.sample(population, k) raises ValueError unless 0 <= k <= len
SampleFails(population, k) == k < 0 \/ k > Len(population)

\* random.sample: k pairwise different positions of the population
Samples(population, k) ==
  {s \in SUBSET (1..Len(population)) : Cardinality(s) = k}

\* lines 226, 148-153: the guard, the mini-batch, the learning rate
policy_update_begin ==
  /\ pc = "update"
  /\ IF ~ShouldUpdate
       THEN /\ pc' = "save"
            /\ UNCHANGED <<mini_batch, old_probs, learn_rate, epoch, loss>>
       ELSE IF SampleFails(data_buffer, batch_size)
         THEN /\ pc' = "ValueError"
              /\ UNCHANGED <<mini_batch, old_probs, learn_rate, epoch, loss>>
         ELSE /\ mini_batch' \in Samples(data_buffer, batch_size)
              /\ old_probs' = 0
              /\ learn_rate' = RatMul(conf.learn_rate, lr_multiplier)
              /\ epoch' = 0
              /\ UNCHANGED loss
              /\ pc' = IF epochs > 0 THEN "train" ELSE "adapt"
  /\ save_model' = None
  /\ UNCHANGED <<conf, training_data, data_buffer, episode_len, lr_multiplier,
                 best_win_ratio, pure_mcts_playout_num, i, files_played,
                 best_policies, episode_data, kl, win_ratio, run_loss,
                 eval_frame, games_log, extend_log, equi_in, equi_out>>

\* mutant: the loop is left at twice the target already
DivergedAtDouble(k) == k > kl_targ * 2

\* line 165
Diverged(k) == k > kl_targ * 4

\* lines 154-167: one epoch: a train step, the KL against old_probs, the guard
train_step ==
  /\ pc = "train"
  /\ \E k \in KLValues :
       /\ kl' = k
       /\ loss' = epoch + 1
       /\ epoch' = epoch + 1
       /\ pc' = IF Diverged(k) \/ epoch + 1 >= epochs THEN "adapt" ELSE "train"
  /\ save_model' = None
  /\ UNCHANGED <<conf, training_data, data_buffer, episode_len, lr_multiplier,
                 best_win_ratio, pure_mcts_playout_num, i, files_played,
                 best_policies, episode_data, mini_batch, learn_rate, win_ratio,
                 old_probs, run_loss, eval_frame, games_log, extend_log,
                 equi_in, equi_out>>

\* mutant: the multiplier is divided however small it already is
AdaptedMultiplierNoFloor(k, m) ==
  IF k > kl_targ * 2 THEN RatDiv(m, LrFactor)
  ELSE IF 2 * k < kl_targ /\ RatLess(m, LrHigh) THEN RatMul(m, LrFactor)
  ELSE m

\* mutant: the thresholds of the KL belong to the outer cases
AdaptedMultiplierAtThreshold(k, m) ==
  IF k >= kl_targ * 2 /\ RatLess(LrLow, m) THEN RatDiv(m, LrFactor)
  ELSE IF 2 * k <= kl_targ /\ RatLess(m, LrHigh) THEN RatMul(m, LrFactor)
  ELSE m

\* mutant: the factor is applied twice
AdaptedMultiplierTwice(k, m) ==
  IF k > kl_targ * 2 /\ RatLess(LrLow, m)
    THEN RatDiv(RatDiv(m, LrFactor), LrFactor)
  ELSE IF 2 * k < kl_targ /\ RatLess(m, LrHigh)
    THEN RatMul(RatMul(m, LrFactor), LrFactor)
  ELSE m

\* lines 169-172
AdaptedMultiplier(k, m) ==
  IF k > kl_targ * 2 /\ RatLess(LrLow, m) THEN RatDiv(m, LrFactor)
  ELSE IF 2 * k < kl_targ /\ RatLess(m, LrHigh) THEN RatMul(m, LrFactor)
  ELSE m

\* lines 169-172: the multiplier is adapted; with no epoch performed kl is
\* unbound at line 169
adapt_lr ==
  /\ pc = "adapt"
  /\ IF epoch = 0
       THEN /\ pc' = "UnboundLocalError"
            /\ UNCHANGED lr_multiplier
       ELSE /\ lr_multiplier' = AdaptedMultiplier(kl, lr_multiplier)
            /\ pc' = "return_update"
  /\ save_model' = None
  /\ UNCHANGED <<conf, training_data, data_buffer, episode_len, best_win_ratio,
                 pure_mcts_playout_num, i, files_played, best_policies,
                 episode_data, mini_batch, learn_rate, epoch, kl, win_ratio,
                 old_probs, loss, run_loss, eval_frame, games_log, extend_log,
                 equi_in, equi_out>>

\* lines 174-192 and 228: policy_update returns loss and entropy to run()
policy_update_return ==
  /\ pc = "return_update"
  /\ run_loss' = loss
  /\ mini_batch' = {}
  /\ old_probs' = None
  /\ loss' = None
  /\ learn_rate' = None
  /\ epoch' = 0
  /\ kl' = None
  /\ pc' = "save"
  /\ save_model' = None
  /\ UNCHANGED <<conf, training_data, data_buffer, episode_len, lr_multiplier,
                 best_win_ratio, pure_mcts_playout_num, i, files_played,
                 best_policies, episode_data, win_ratio, eval_frame, games_log,
                 extend_log, equi_in, equi_out>>

(***************************************************************************)
(* run(), lines 217-247                                                     *)
(***************************************************************************)
\* mutant: one cycle more than game_batch_num
NextCycleOneMore ==
  IF i + 1 <= game_batch_num
    THEN i' = i + 1 /\ pc' = "collect"
    ELSE i' = i /\ pc' = "done"

\* line 220: the next iteration of the for loop, or its end
NextCycle ==
  IF i + 1 < game_batch_num
    THEN i' = i + 1 /\ pc' = "collect"
    ELSE i' = i /\ pc' = "done"

\* lines 232-233
save_current ==
  /\ pc = "save"
  /\ save_model' = IF (i + 1) % SaveFreq = 0 THEN "current_policy" ELSE None
  /\ pc' = "evaluate"
  /\ UNCHANGED <<conf, training_data, data_buffer, episode_len, lr_multiplier,
                 best_win_ratio, pure_mcts_playout_num, i, files_played,
                 best_policies, episode_data, mini_batch, learn_rate, epoch, kl,
                 win_ratio, old_probs, loss, run_loss, eval_frame, games_log,
                 extend_log, equi_in, equi_out>>

\* line 211, in percent: win_cnt[1] wins and win_cnt[-1] ties of n_games
WinRatio(wins, ties, n_games) == (100 * wins + 50 * ties) \div n_games

\* lines 234-236 and policy_evaluate, lines 194-215: the games' winners are
\* the collaborators' to decide
policy_evaluate ==
  /\ pc = "evaluate"
  /\ IF (i + 1) % check_freq = 0
       THEN /\ \E wins \in 0..EvalGames : \E ties \in 0..(EvalGames - wins) :
                 win_ratio' = WinRatio(wins, ties, EvalGames)
            /\ pc' = "judge"
       ELSE /\ win_ratio' = win_ratio
            /\ pc' = "next"
  /\ save_model' = None
  /\ UNCHANGED <<conf, training_data, data_buffer, episode_len, lr_multiplier,
                 best_win_ratio, pure_mcts_playout_num, i, files_played,
                 best_policies, episode_data, mini_batch, learn_rate, epoch, kl,
                 old_probs, loss, run_loss, eval_frame, games_log, extend_log,
                 equi_in, equi_out>>

\* mutant: a ratio equal to the best one replaces it
IsNewBestOrEqual(ratio, best) == ratio >= best

\* mutant: any different ratio replaces the best one
IsNewBestAny(ratio, best) == ratio # best

\* line 237
IsNewBest(ratio, best) == ratio > best

\* mutant: the baseline is raised without a ceiling
ShouldEscalateNoCeiling(best, playouts) == best >= WinThreshold

\* mutant: the baseline is raised once more at the ceiling
ShouldEscalateAtCeiling(best, playouts) ==
  best >= WinThreshold /\ playouts <= PlayoutCeiling

\* lines 242-243
ShouldEscalate(best, playouts) ==
  best >= WinThreshold /\ playouts < PlayoutCeiling

\* lines 237-239: a win ratio above the best one is recorded
judge_evaluation ==
  /\ pc = "judge"
  /\ IF IsNewBest(win_ratio, best_win_ratio)
       THEN best_win_ratio' = win_ratio /\ pc' = "save_best"
       ELSE UNCHANGED best_win_ratio /\ pc' = "next"
  /\ save_model' = None
  /\ UNCHANGED <<conf, training_data, data_buffer, episode_len, lr_multiplier,
                 pure_mcts_playout_num, i, files_played, best_policies,
                 episode_data, mini_batch, learn_rate, epoch, kl, win_ratio,
                 old_probs, loss, run_loss, eval_frame, games_log, extend_log,
                 equi_in, equi_out>>

\* line 241: the file name is formatted and save_model is called for the
\* best checkpoint; at "escalate" control is in that call
save_best_policy ==
  /\ pc = "save_best"
  /\ save_model' = <<"best_policy", i>>
  /\ best_policies' = best_policies \cup {i}
  /\ pc' = "escalate"
  /\ UNCHANGED <<conf, training_data, data_buffer, episode_len, lr_multiplier,
                 best_win_ratio, pure_mcts_playout_num, i, files_played,
                 episode_data, mini_batch, learn_rate, epoch, kl, win_ratio,
                 old_probs, loss, run_loss, eval_frame, games_log, extend_log,
                 equi_in, equi_out>>

\* lines 241-245: save_model returns and the baseline is raised, or not
escalate_baseline ==
  /\ pc = "escalate"
  /\ IF ShouldEscalate(best_win_ratio, pure_mcts_playout_num)
       THEN /\ pure_mcts_playout_num' = pure_mcts_playout_num + PlayoutStep
            /\ best_win_ratio' = 0
       ELSE UNCHANGED <<best_win_ratio, pure_mcts_playout_num>>
  /\ save_model' = None
  /\ pc' = "next"
  /\ UNCHANGED <<conf, training_data, data_buffer, episode_len, lr_multiplier,
                 i, files_played, best_policies, episode_data, mini_batch,
                 learn_rate, epoch, kl, win_ratio, old_probs, loss, run_loss,
                 eval_frame, games_log, extend_log, equi_in, equi_out>>

\* line 220: the head of the for loop, reached when run() enters the loop
\* and by the jump back from the end of a cycle, starts the next cycle or
\* leaves the loop
next_cycle ==
  /\ pc = "next"
  /\ NextCycle
  /\ save_model' = None
  /\ UNCHANGED <<conf, training_data, data_buffer, episode_len, lr_multiplier,
                 best_win_ratio, pure_mcts_playout_num, files_played,
                 best_policies, episode_data, mini_batch, learn_rate, epoch, kl,
                 win_ratio, old_probs, loss, run_loss, eval_frame, games_log,
                 extend_log, equi_in, equi_out>>

\* mutant: the interrupt is looked for at the head of the loop only
RunningBetweenCycles == pc \in {"next", "collect"}

\* lines 219, 246-247: KeyboardInterrupt inside the try block ends run()
Running ==
  pc \in {"collect", "playing", "augment", "update", "train", "adapt",
          "return_update", "save", "evaluate", "judge", "save_best",
          "escalate", "next"}

\* mutant: no handler, the exception leaves run()
keyboard_interrupt_uncaught ==
  /\ Running
  /\ pc' = "KeyboardInterrupt"
  /\ save_model' = None
  /\ UNCHANGED <<conf, training_data, data_buffer, episode_len, lr_multiplier,
                 best_win_ratio, pure_mcts_playout_num, i, files_played,
                 best_policies, episode_data, mini_batch, learn_rate, epoch, kl,
                 win_ratio, old_probs, loss, run_loss, eval_frame, games_log,
                 extend_log, equi_in, equi_out>>

keyboard_interrupt ==
  /\ Running
  /\ pc' = "quit"
  /\ save_model' = None
  /\ UNCHANGED <<conf, training_data, data_buffer, episode_len, lr_multiplier,
                 best_win_ratio, pure_mcts_playout_num, i, files_played,
                 best_policies, episode_data, mini_batch, learn_rate, epoch, kl,
                 win_ratio, old_probs, loss, run_loss, eval_frame, games_log,
                 extend_log, equi_in, equi_out>>

Next ==
  \/ start_self_play_call
  \/ start_self_play_return
  \/ extend_data_buffer
  \/ policy_update_begin
  \/ train_step
  \/ adapt_lr
  \/ policy_update_return
  \/ save_current
  \/ policy_evaluate
  \/ judge_evaluation
  \/ save_best_policy
  \/ escalate_baseline
  \/ next_cycle
  \/ keyboard_interrupt

Spec == Init /\ [][Next]_vars

(***************************************************************************)
(* The end-to-end scenario: capacity 10, batch size 4, every episode of     *)
(* the run two raw triples long                                             *)
(***************************************************************************)
Scenario == [episode_len |-> 2, episodes |-> 3]

InitScenario ==
  /\ \E pool \in UNION {Shuffles(n) : n \in 1..MaxPool} :
       InitPipeline(ScenarioConf, pool)
  /\ Idle

NextScenario ==
  \/ start_self_play_call
  \/ StartSelfPlayReturns(Scenario.episode_len)
  \/ extend_data_buffer
  \/ policy_update_begin
  \/ train_step
  \/ adapt_lr
  \/ policy_update_return
  \/ save_current
  \/ policy_evaluate
  \/ judge_evaluation
  \/ save_best_policy
  \/ escalate_baseline
  \/ next_cycle
  \/ keyboard_interrupt

SpecScenario == InitScenario /\ [][NextScenario]_vars

(***************************************************************************)
(* The replay buffer alone: deque(maxlen = buffer_size) under extend calls  *)
(***************************************************************************)
SampleNames == {"x", "y"}

ExtendArgs ==
  UNION {[1..n -> SampleNames] : n \in 0..MaxExtend}

InitBuffer ==
  /\ \E c \in 0..MaxCap :
       PipelineAt([ScenarioConf EXCEPT !.buffer_size = c], <<"a.sgf">>, "buffer")
  /\ Idle

\* line 127: self.data_buffer.extend(play_data)
buffer_extend ==
  /\ pc = "buffer"
  /\ \E items \in ExtendArgs :
       /\ Len(extend_log) + Len(items) <= MaxLog
       /\ data_buffer' = DequeExtend(data_buffer, items, buffer_size)
       /\ extend_log' = extend_log \o items
  /\ UNCHANGED pipelineVars
  /\ UNCHANGED equiVars

NextBuffer == buffer_extend

SpecBuffer == InitBuffer /\ [][NextBuffer]_vars

(***************************************************************************)
(* get_equi_data alone, on game records over small boards                   *)
(***************************************************************************)
EquiBoards == {<<2, 2>>, <<1, 2>>, <<2, 3>>}

Ramp(cells) == [j \in 1..cells |-> j]
PlaneOf(v, h, w) == reshape(v, h, w)

\* state tensors: one plane with a single stone, one plane with pairwise
\* different cells, and two-plane tensors
EquiStates(h, w) ==
  {<<PlaneOf(OneHot(t, h * w), h, w)>> : t \in 1..(h * w)}
    \cup {<<PlaneOf(Ramp(h * w), h, w)>>}
    \cup {<<PlaneOf(Ramp(h * w), h, w), PlaneOf(OneHot(t, h * w), h, w)>> :
            t \in 1..(h * w)}

EquiProbs(h, w) == {OneHot(t, h * w) : t \in 1..(h * w)} \cup {Ramp(h * w)}

Winners == {1, 0 - 1, 0}

\* the triples of the records tried: each component varied against a fixed
\* rest, and states with a plane that shows the probability vector as the
\* board shows a move (row 0 of the plane is the last row of the vector)
EquiTriples(h, w) ==
  {<<s, OneHot(1, h * w), 1>> : s \in EquiStates(h, w)}
    \cup {<<<<PlaneOf(Ramp(h * w), h, w)>>, p, 0 - 1>> : p \in EquiProbs(h, w)}
    \cup {<<<<PlaneOf(OneHot(2, h * w), h, w)>>, Ramp(h * w), z>> : z \in Winners}
    \cup {<<<<flipud(PlaneOf(p, h, w))>>, p, 1>> : p \in EquiProbs(h, w)}
    \cup {<<<<PlaneOf(OneHot(1, h * w), h, w), flipud(PlaneOf(p, h, w))>>, p, 0>> :
            p \in EquiProbs(h, w)}

GameRecords(h, w) ==
  UNION {[1..n -> EquiTriples(h, w)] : n \in 0..MaxTriples}

InitEqui ==
  /\ \E b \in EquiBoards :
       PipelineAt([ScenarioConf EXCEPT !.board_height = b[1],
                                       !.board_width = b[2]],
                  <<"a.sgf">>, "equi")
  /\ eval_frame = None
  /\ games_log = <<>>
  /\ extend_log = <<>>
  /\ equi_in \in GameRecords(board_height, board_width)
  /\ equi_out = None

\* line 126: play_data = self.get_equi_data(play_data)
call_get_equi_data ==
  /\ pc = "equi"
  /\ equi_out' = get_equi_data(equi_in, board_height, board_width)
  /\ pc' = "equi_done"
  /\ UNCHANGED <<conf, training_data, data_buffer, episode_len, lr_multiplier,
                 best_win_ratio, pure_mcts_playout_num, i, files_played,
                 best_policies, episode_data, mini_batch, learn_rate, epoch, kl,
                 win_ratio, save_model, old_probs, loss, run_loss, eval_frame,
                 games_log, extend_log, equi_in>>

NextEqui == call_get_equi_data

SpecEqui == InitEqui /\ [][NextEqui]_vars

(***************************************************************************)
(* policy_evaluate alone, lines 194-215, game by game                       *)
(***************************************************************************)
\* the n_games arguments tried; the ratio of each is a whole percent
GameCounts == {1, 2, 5, 10}

\* Game.start_play returns the winner: player 1 is the first argument, the
\* learner's MCTS player, player 2 the pure MCTS baseline, -1 a tie
GameWinners == {1, 2, 0 - 1}

\* line 204 after line 194: win_cnt = defaultdict(int)
InitEvaluate ==
  /\ \E c \in EvalConfs : PipelineAt(c, <<"a.sgf">>, "eval_game")
  /\ \E n \in GameCounts :
       eval_frame = [n_games |-> n, i |-> 0, win_cnt |-> [w \in GameWinners |-> 0]]
  /\ games_log = <<>>
  /\ extend_log = <<>>
  /\ equi_in = <<>>
  /\ equi_out = None

\* mutant: the baseline moves first in the even games
StartPlayerSwapped(g) == (g + 1) % 2

\* line 208: start_player = i % 2
StartPlayer(g) == g % 2

\* lines 205-210: one iteration of the loop over range(n_games)
start_play ==
  /\ pc = "eval_game"
  /\ eval_frame.i < eval_frame.n_games
  /\ \E winner \in GameWinners :
       /\ games_log' = Append(games_log, <<StartPlayer(eval_frame.i), winner>>)
       /\ eval_frame' = [eval_frame EXCEPT !.i = @ + 1, !.win_cnt[winner] = @ + 1]
  /\ UNCHANGED <<conf, training_data, data_buffer, episode_len, lr_multiplier,
                 best_win_ratio, pure_mcts_playout_num, i, pc, files_played,
                 best_policies, episode_data, mini_batch, learn_rate, epoch, kl,
                 win_ratio, save_model, old_probs, loss, run_loss, extend_log,
                 equi_in, equi_out>>

\* lines 211-215: the ratio is computed and returned
evaluate_return ==
  /\ pc = "eval_game"
  /\ eval_frame.i = eval_frame.n_games
  /\ win_ratio' = WinRatio(eval_frame.win_cnt[1], eval_frame.win_cnt[0 - 1],
                           eval_frame.n_games)
  /\ pc' = "eval_done"
  /\ UNCHANGED <<conf, training_data, data_buffer, episode_len, lr_multiplier,
                 best_win_ratio, pure_mcts_playout_num, i, files_played,
                 best_policies, episode_data, mini_batch, learn_rate, epoch, kl,
                 save_model, old_probs, loss, run_loss, eval_frame, games_log,
                 extend_log, equi_in, equi_out>>

NextEvaluate ==
  \/ start_play
  \/ evaluate_return

SpecEvaluate == InitEvaluate /\ [][NextEvaluate]_vars

(***************************************************************************)
(* Properties                                                               *)
(***************************************************************************)

\* C1: in every reachable state of run(), whatever the lengths of the
\* episodes collected, the replay buffer holds at most buffer_size samples.
BufferBound == Len(data_buffer) <= buffer_size

\* a second or later collection has put more samples than the capacity
\* into the buffer, which is full
BufferBoundWitness ==
  /\ pc = "update"
  /\ i >= 1
  /\ 8 * episode_len > buffer_size
  /\ Len(data_buffer) = buffer_size

\* C2: once the extend calls have inserted more than buffer_size samples,
\* the buffer holds buffer_size samples, which are the most recently
\* inserted ones in their insertion order.
BufferKeepsMostRecent ==
  Len(extend_log) > buffer_size =>
    /\ Len(data_buffer) = buffer_size
    /\ data_buffer = SubSeq(extend_log, Len(extend_log) - buffer_size + 1,
                            Len(extend_log))

\* several samples were evicted from a buffer of two or more samples that
\* are told apart
BufferKeepsMostRecentWitness ==
  /\ buffer_size >= 2
  /\ Len(extend_log) > buffer_size + 1
  /\ data_buffer[1] # data_buffer[2]
  /\ extend_log[1] # extend_log[Len(extend_log)]

\* C3, as claimed: the multiplier is always above 0.05 and at most 20.
MultiplierWithinClaimedInterval ==
  RatLess(LrLow, lr_multiplier) /\ ~RatLess(LrHigh, lr_multiplier)

\* C3, amended: the multiplier is always above 0.05 / 1.5 and below
\* 20 * 1.5: it is divided only while above 0.05 and multiplied only while
\* below 20, so it passes either threshold by less than one factor of 1.5.
MultiplierWithinOneFactor ==
  /\ RatLess(RatDiv(LrLow, LrFactor), lr_multiplier)
  /\ RatLess(lr_multiplier, RatMul(LrHigh, LrFactor))

\* updates have taken the multiplier below 0.05
MultiplierBelowFloorWitness ==
  /\ conf.lr_multiplier = <<1, 1>>
  /\ RatLess(lr_multiplier, LrLow)

\* C4, as claimed: no step leaves best_win_ratio smaller than it was.
BestRatioNeverDecreases ==
  [][best_win_ratio' >= best_win_ratio]_vars

\* C4, amended: best_win_ratio starts at 0 and no step leaves it smaller
\* than it was, except the step of an evaluation that raises the baseline
\* strength, which sets it to 0.
BestRatioDecreasesOnlyOnEscalation ==
  /\ best_win_ratio = 0
  /\ [][\/ best_win_ratio' >= best_win_ratio
        \/ /\ pc = "escalate"
           /\ best_win_ratio' = 0
           /\ pure_mcts_playout_num' = pure_mcts_playout_num + PlayoutStep]_vars

\* a best ratio above 0 was recorded in the first cycle; the evaluation of
\* the second one has raised the baseline and set the best ratio back to 0
BestRatioResetWitness ==
  /\ pc = "done"
  /\ i = 1
  /\ best_win_ratio = 0
  /\ pure_mcts_playout_num = conf.pure_mcts_playout_num + PlayoutStep
  /\ win_ratio >= WinThreshold
  /\ run_loss = 2

\* C5, as claimed: from a configured value of at most 8000 the baseline
\* strength never exceeds 8000.
PlayoutsNeverExceedCeiling ==
  conf.pure_mcts_playout_num <= PlayoutCeiling =>
    pure_mcts_playout_num <= PlayoutCeiling

\* C5, amended: the baseline strength never decreases; from a configured
\* value of at most 8000 it stays below 8000 + 1000, and it stays at or
\* below 8000 when the configured value is a whole number of steps of 1000
\* below 8000.
PlayoutsBelowCeilingPlusStep ==
  /\ [](conf.pure_mcts_playout_num <= PlayoutCeiling =>
          /\ pure_mcts_playout_num < PlayoutCeiling + PlayoutStep
          /\ (PlayoutCeiling - conf.pure_mcts_playout_num) % PlayoutStep = 0
               => pure_mcts_playout_num <= PlayoutCeiling)
  /\ [][pure_mcts_playout_num' >= pure_mcts_playout_num]_vars

\* an escalation from below the ceiling has passed it
PlayoutsAboveCeilingWitness ==
  /\ conf.pure_mcts_playout_num <= PlayoutCeiling
  /\ pure_mcts_playout_num > PlayoutCeiling

\* C6: an evaluation that sets a new best ratio of at least 0.98 while the
\* baseline strength is at its ceiling leaves the strength there and keeps
\* the new best ratio; once the strength is at the ceiling with a best
\* ratio of at least 0.98 no step changes the strength or lowers the ratio;
\* and below the ceiling such an evaluation raises the strength by one step
\* and resets the best ratio, once.
EscalationStopsAtCeiling ==
  [][/\ (/\ pc = "judge" /\ pc' # "quit"
         /\ win_ratio > best_win_ratio /\ win_ratio >= WinThreshold)
       => /\ pc' = "save_best"
          /\ pure_mcts_playout_num' = pure_mcts_playout_num
          /\ best_win_ratio' = win_ratio
     /\ (pc = "save_best" /\ pc' # "quit")
       => /\ pc' = "escalate"
          /\ pure_mcts_playout_num' = pure_mcts_playout_num
          /\ best_win_ratio' = best_win_ratio
     /\ (pc = "escalate" /\ pc' # "quit" /\ best_win_ratio >= WinThreshold)
       => IF pure_mcts_playout_num >= PlayoutCeiling
            THEN /\ pure_mcts_playout_num' = pure_mcts_playout_num
                 /\ best_win_ratio' = best_win_ratio
            ELSE /\ pure_mcts_playout_num' = pure_mcts_playout_num + PlayoutStep
                 /\ best_win_ratio' = 0
     /\ (pure_mcts_playout_num >= PlayoutCeiling
           /\ best_win_ratio >= WinThreshold)
       => /\ pure_mcts_playout_num' = pure_mcts_playout_num
          /\ best_win_ratio' >= best_win_ratio]_vars

\* the first evaluation raised the baseline from 7000 to the ceiling, the
\* second one set a best ratio of 1.0 there, and the third one, 1.0 again
\* and no new best, was judged and left both as they were
EscalationStopsAtCeilingWitness ==
  /\ pc = "next"
  /\ i = 2
  /\ conf.pure_mcts_playout_num = PlayoutCeiling - PlayoutStep
  /\ pure_mcts_playout_num = PlayoutCeiling
  /\ best_policies = {0, 1}
  /\ best_win_ratio = 100
  /\ win_ratio = 100

\* C7: after a cycle's collection policy_update runs if and only if the
\* buffer holds more than batch_size samples; random.sample never fails;
\* and while the update runs the mini-batch is batch_size different
\* positions of the buffer.
UpdateOnlyAboveBatchSize ==
  /\ [](/\ pc # "ValueError"
        /\ pc \in {"train", "adapt"} =>
             /\ mini_batch \subseteq 1..Len(data_buffer)
             /\ Cardinality(mini_batch) = batch_size
             /\ Len(data_buffer) >= batch_size)
  /\ [][/\ (pc = "update" /\ pc' # "quit") =>
             /\ Len(data_buffer) > batch_size => pc' \in {"train", "adapt"}
             /\ Len(data_buffer) <= batch_size => pc' = "save"
        /\ (pc' \in {"train", "adapt"} /\ pc \notin {"train", "adapt"}) =>
             pc = "update"]_vars

\* a mini-batch was drawn from a buffer one sample larger than the batch
UpdateOnlyAboveBatchSizeWitness ==
  /\ pc = "train"
  /\ Len(data_buffer) = batch_size + 1
  /\ Cardinality(mini_batch) = batch_size

\* C8: cycle c plays the pool entry at index c mod L; the first 2L cycles
\* play every pool entry exactly twice, the second pass in the order of
\* the first; and the pool is never changed.
PoolLen == Len(training_data)

PoolVisitedCyclically ==
  /\ [](/\ \A c \in 1..Len(files_played) :
             files_played[c] = training_data[((c - 1) % PoolLen) + 1]
        /\ Len(files_played) >= 2 * PoolLen =>
             /\ \A q \in 1..PoolLen :
                  Cardinality({c \in 1..(2 * PoolLen) :
                                 files_played[c] = training_data[q]}) = 2
             /\ \A c \in 1..PoolLen :
                  files_played[PoolLen + c] = files_played[c])
  /\ [][training_data' = training_data]_vars

\* a pool of two files has been played twice over
PoolVisitedCyclicallyWitness ==
  /\ PoolLen >= 2
  /\ Len(files_played) = 2 * PoolLen

(***************************************************************************)
(* C9: the dihedral images of a matrix, and the inverse of each of the      *)
(* eight transforms of get_equi_data                                        *)
(***************************************************************************)
\* the images of m under the group generated by the transposition and the
\* vertical flip
Orbit(m) ==
  {m, transpose(m), flipud(m), transpose(flipud(m)), flipud(transpose(m)),
   transpose(flipud(transpose(m))), flipud(transpose(flipud(m))),
   transpose(flipud(transpose(flipud(m))))}

\* output j of 1..8 of a triple: rotation step (j + 1) \div 2, mirrored
\* when j is even
StepOf(j) == (j + 1) \div 2
IsMirrored(j) == j % 2 = 0

\* the inverse transform of a state plane: undo the mirror, rotate back
UndoPlane(x, j) ==
  rot90(IF IsMirrored(j) THEN fliplr(x) ELSE x, 4 - StepOf(j))

\* output j's probability vector on the (rotated) board
ProbBoard(v, j, h, w) ==
  IF StepOf(j) % 2 = 1 THEN reshape(v, w, h) ELSE reshape(v, h, w)

\* the inverse transform of a probability vector
UndoProb(v, j, h, w) ==
  LET q == flipud(ProbBoard(v, j, h, w))
  IN  flatten(flipud(rot90(IF IsMirrored(j) THEN fliplr(q) ELSE q,
                           4 - StepOf(j))))

\* C9: get_equi_data returns 8 samples per triple; the eight state planes
\* (and probability boards) of a triple are its images under the eight
\* elements of the dihedral group, the seventh being the original; the
\* inverse transform recovers the original arrays from each; and the
\* outcome is copied into all eight.
AugmentationClosure ==
  pc = "equi_done" =>
    /\ Len(equi_out) = 8 * Len(equi_in)
    /\ \A t \in 1..Len(equi_in) :
         LET orig == equi_in[t]
             h == board_height
             w == board_width
         IN  /\ \A j \in 1..8 :
                  LET img == equi_out[8 * (t - 1) + j]
                  IN  /\ img[3] = orig[3]
                      /\ Len(img[1]) = Len(orig[1])
                      /\ \A p \in 1..Len(orig[1]) :
                           UndoPlane(img[1][p], j) = orig[1][p]
                      /\ Len(img[2]) = h * w
                      /\ UndoProb(img[2], j, h, w) = orig[2]
             /\ equi_out[8 * (t - 1) + 7] = orig
             /\ \A p \in 1..Len(orig[1]) :
                  {equi_out[8 * (t - 1) + j][1][p] : j \in 1..8}
                    = Orbit(orig[1][p])
             /\ {ProbBoard(equi_out[8 * (t - 1) + j][2], j, h, w) : j \in 1..8}
                  = Orbit(reshape(orig[2], h, w))

\* a record of two triples on the 2 x 3 board whose first plane has eight
\* different images, all of them returned
AugmentationClosureWitness ==
  /\ pc = "equi_done"
  /\ board_height = 2
  /\ board_width = 3
  /\ Len(equi_in) = 2
  /\ equi_in[1][3] # equi_in[2][3]
  /\ Cardinality(Orbit(equi_in[1][1][1])) = 8
  /\ Cardinality({equi_out[j][1][1] : j \in 1..8}) = 8

\* C10: with capacity 10 and batch size 4, after three episodes of two raw
\* triples each (16 samples an episode) the buffer holds 10 samples, and
\* the policy_update on it is entered, draws its 4 samples, raises nothing
\* and returns.
ScenarioBufferFullAndUpdateRuns ==
  /\ [](/\ pc \notin {"ValueError", "UnboundLocalError"}
        /\ (/\ Len(files_played) = Scenario.episodes
            /\ pc \notin {"playing", "augment", "quit"}) =>
             /\ episode_len = Scenario.episode_len
             /\ Len(data_buffer) = 10
             /\ buffer_size = 10 /\ batch_size = 4
             /\ pc \in {"train", "adapt"} => Cardinality(mini_batch) = 4)
  /\ [][(Len(files_played) = Scenario.episodes /\ pc' # "quit") =>
          /\ pc = "update" => pc' = "train"
          /\ pc = "train" => pc' \in {"train", "adapt"}
          /\ pc = "adapt" => pc' = "return_update"
          /\ pc = "return_update" => pc' = "save"]_vars

\* the update of the third cycle has returned
ScenarioUpdateDoneWitness ==
  /\ Len(files_played) = Scenario.episodes
  /\ pc = "save"
  /\ Len(data_buffer) = 10
  /\ lr_multiplier # conf.lr_multiplier


\* the games of the log that player w won
GamesWonBy(w) == Cardinality({g \in 1..Len(games_log) : games_log[g][2] = w})

\* C11: policy_evaluate(n_games) plays exactly n_games games, game g (from
\* 0) with start player g mod 2, and returns (wins + 0.5 * ties) / n_games
\* counted over those games for player 1, the learner: a ratio within
\* [0, 1]; the call changes neither best_win_ratio nor the baseline's
\* playout count.
EvaluationPlaysAndScores ==
  /\ [](pc = "eval_done" =>
          /\ Len(games_log) = eval_frame.n_games
          /\ \A g \in 1..Len(games_log) : games_log[g][1] = (g - 1) % 2
          /\ win_ratio * eval_frame.n_games =
               100 * GamesWonBy(1) + 50 * GamesWonBy(0 - 1)
          /\ win_ratio >= 0 /\ win_ratio <= 100)
  /\ [][/\ best_win_ratio' = best_win_ratio
        /\ pure_mcts_playout_num' = pure_mcts_playout_num]_vars

EvaluationPlaysAndScoresWitness ==
  /\ pc = "eval_done"
  /\ eval_frame.n_games = 10
  /\ GamesWonBy(1) = 3 /\ GamesWonBy(2) = 4 /\ GamesWonBy(0 - 1) = 3
  /\ win_ratio = 45


\* the positions of control inside the loop of run()
LoopPositions ==
  {"collect", "playing", "augment", "update", "train", "adapt",
   "return_update", "save", "evaluate", "judge", "save_best", "escalate",
   "next"}

\* C12: a KeyboardInterrupt arriving at any point of the cycle loop is
\* caught by run(), which returns normally: from every position of the loop
\* the interrupt leads to the handler's exit, never to an error, and after
\* it no collection, update, checkpoint or evaluation step is taken.
InterruptEndsRun ==
  /\ [](/\ pc \in LoopPositions => ENABLED (keyboard_interrupt /\ pc' = "quit")
        /\ pc # "KeyboardInterrupt")
  /\ [][pc = "quit" => FALSE]_vars

\* the interrupt was caught at the last jump back of the loop: the last
\* cycle had saved a best checkpoint and raised the baseline
InterruptEndsRunWitness ==
  /\ pc = "quit"
  /\ i = game_batch_num - 1
  /\ i \in best_policies
  /\ best_win_ratio = 0
  /\ pure_mcts_playout_num > conf.pure_mcts_playout_num

\* C13 as claimed: an interrupt is observed between cycles only, and when
\* the loop stops no sample of an unfinished cycle is in the buffer: as many
\* episodes were collected as cycles were completed.
InterruptOnlyBetweenCycles ==
  [][pc' = "quit" =>
       (pc \in {"next", "collect"} /\ Len(files_played) \in {i, i + 1})]_vars

\* C13, amended: an interrupt is observed at every position of a cycle, also
\* inside the collection, between the collection and the update, between two
\* epochs, inside the saving of the best checkpoint and at the jump back of
\* the loop after the escalation; every state the loop reaches is one it
\* can stop in, and the interrupt itself changes neither the buffer nor
\* best_win_ratio, which keep the values the completed steps gave them.
InterruptKeepsReachedState ==
  /\ [](pc \in LoopPositions \ {"collect"} =>
          ENABLED (/\ keyboard_interrupt
                   /\ pc' = "quit"
                   /\ data_buffer' = data_buffer
                   /\ best_win_ratio' = best_win_ratio
                   /\ pure_mcts_playout_num' = pure_mcts_playout_num))
  /\ [][pc' = "quit" =>
          /\ data_buffer' = data_buffer
          /\ best_win_ratio' = best_win_ratio
          /\ pure_mcts_playout_num' = pure_mcts_playout_num
          /\ lr_multiplier' = lr_multiplier]_vars

InterruptMidCycleWitness ==
  /\ pc = "quit"
  /\ Len(files_played) = i + 1
  /\ i = 1
  /\ Len(data_buffer) > 8


\* x = m * num / den
IsQuotient(x, m, num, den) == x[1] * m[2] * den = x[2] * m[1] * num

\* C14: one policy_update changes the multiplier m by the three-way rule on
\* the KL of the last epoch performed: KL > 2 * kl_targ and m > 0.05 gives
\* m / 1.5; otherwise KL < 0.5 * kl_targ and m < 20 gives m * 1.5; otherwise
\* m is unchanged. Fractions are compared by cross-multiplication.
MultiplierThreeWayRule ==
  [][(pc = "adapt" /\ pc' = "return_update") =>
       LET m == lr_multiplier
       IN  IF kl > 2 * kl_targ /\ 100 * m[1] > 5 * m[2]
             THEN IsQuotient(lr_multiplier', m, 2, 3)
           ELSE IF 2 * kl < kl_targ /\ m[1] < 20 * m[2]
             THEN IsQuotient(lr_multiplier', m, 3, 2)
           ELSE lr_multiplier' = m]_vars

MultiplierThreeWayRuleWitness ==
  /\ pc = "save"
  /\ i = 1
  /\ lr_multiplier \in {<<4, 9>>, <<9, 4>>}
  /\ run_loss = 1


\* C15: a policy_update with E >= 1 epochs performs between 1 and E train
\* steps; the loop is left right after the first epoch whose KL exceeds
\* 4 * kl_targ and otherwise after epoch E only; every KL is measured against
\* the old_probs snapshot taken once before the loop; the loss and entropy
\* returned are those of the last epoch performed.
EpochLoopStopsOnDivergence ==
  /\ [](/\ pc \in {"adapt", "return_update"} =>
             (epoch >= 1 /\ epoch <= epochs /\ loss = epoch)
        /\ pc \in {"train", "adapt", "return_update"} => old_probs = 0
        /\ (pc = "train" /\ epoch >= 1) => (kl <= 4 * kl_targ /\ epoch < epochs))
  /\ [][/\ (pc = "train" /\ pc' # "quit") =>
             /\ epoch' = epoch + 1
             /\ loss' = epoch'
             /\ old_probs' = old_probs
             /\ (pc' = "adapt") = (kl' > 4 * kl_targ \/ epoch' = epochs)
             /\ (pc' = "train") = ~(kl' > 4 * kl_targ \/ epoch' = epochs)
        /\ (pc = "adapt" /\ pc' # "quit") =>
             (pc' = "return_update" /\ epoch' = epoch /\ loss' = loss)
        /\ (pc = "return_update" /\ pc' # "quit") => run_loss' = epoch]_vars

EpochLoopStopsOnDivergenceWitness ==
  /\ pc = "adapt"
  /\ epochs = 2
  /\ epoch = 1
  /\ kl > 4 * kl_targ
  /\ loss = 1

\* C16: at an evaluation, a win ratio strictly above best_win_ratio becomes
\* the best one and a best checkpoint is requested; if it is at least 0.98
\* and the baseline is below 8000 playouts, the baseline rises by exactly
\* 1000 and best_win_ratio is reset to 0. A ratio not above the best one
\* requests no best checkpoint and changes neither.
EvaluationOutcomeRule ==
  [][/\ (pc = "judge" /\ pc' # "quit") =>
          IF win_ratio > best_win_ratio
            THEN /\ best_win_ratio' = win_ratio
                 /\ save_model' = None
                 /\ pure_mcts_playout_num' = pure_mcts_playout_num
                 /\ pc' = "save_best"
            ELSE /\ save_model' = None
                 /\ best_win_ratio' = best_win_ratio
                 /\ pure_mcts_playout_num' = pure_mcts_playout_num
                 /\ pc' = "next"
     /\ (pc = "save_best" /\ pc' # "quit") =>
          /\ save_model' = <<"best_policy", i>>
          /\ best_win_ratio' = best_win_ratio
          /\ pure_mcts_playout_num' = pure_mcts_playout_num
          /\ pc' = "escalate"
     /\ (pc = "escalate" /\ pc' # "quit") =>
          /\ save_model' = None
          /\ IF best_win_ratio >= WinThreshold
                  /\ pure_mcts_playout_num < PlayoutCeiling
               THEN /\ pure_mcts_playout_num' =
                         pure_mcts_playout_num + PlayoutStep
                    /\ best_win_ratio' = 0
               ELSE /\ pure_mcts_playout_num' = pure_mcts_playout_num
                    /\ best_win_ratio' = best_win_ratio
     /\ pc \notin {"judge", "escalate"} =>
          /\ best_win_ratio' = best_win_ratio
          /\ pure_mcts_playout_num' = pure_mcts_playout_num]_vars

\* the first evaluation raised the baseline from 7000 to 8000, the second
\* one set a best ratio of 0.95 and left the baseline alone
EvaluationOutcomeRuleWitness ==
  /\ pc = "done"
  /\ i = 1
  /\ best_win_ratio = 95
  /\ pure_mcts_playout_num = 8000
  /\ conf.pure_mcts_playout_num = 7000

\* the end of a cycle, and a bound on the steps an uninterrupted run has left
CycleAdvances ==
  IF i + 1 < game_batch_num
    THEN pc' = "collect" /\ i' = i + 1
    ELSE pc' = "done" /\ i' = i

StageRank ==
  CASE pc = "collect" -> epochs + 12
    [] pc = "playing" -> epochs + 11
    [] pc = "augment" -> epochs + 10
    [] pc = "update" -> epochs + 9
    [] pc = "train" -> epochs + 8 - epoch
    [] pc = "adapt" -> 8
    [] pc = "return_update" -> 7
    [] pc = "save" -> 6
    [] pc = "evaluate" -> 5
    [] pc = "judge" -> 4
    [] pc = "save_best" -> 3
    [] pc = "escalate" -> 2
    [] pc = "next" -> 1
    [] OTHER -> 0

StepsLeft ==
  IF pc = "done" THEN 0 ELSE (game_batch_num - i) * (epochs + 13) + StageRank

\* C17: an uninterrupted run executes exactly game_batch_num cycles, with the
\* indices 0 .. game_batch_num - 1 in order, and then ends; the steps of a
\* cycle come in the order collect, optional update, optional routine
\* checkpoint, optional evaluation; the routine checkpoint is requested
\* exactly when i + 1 is a multiple of 50 and the evaluation runs exactly
\* when i + 1 is a multiple of check_freq. StepsLeft bounds the steps an
\* uninterrupted run still takes.
CyclesInOrder ==
  /\ [](/\ pc = "done" =>
             (i = game_batch_num - 1 /\ Len(files_played) = game_batch_num)
        /\ pc \in LoopPositions =>
             (/\ i \in (IF pc = "next" THEN 0 - 1 ELSE 0)..(game_batch_num - 1)
              /\ Len(files_played) = IF pc = "collect" THEN i ELSE i + 1)
        /\ pc \in LoopPositions \cup {"done", "quit"})
  /\ [][pc' # "quit" =>
          /\ StepsLeft' < StepsLeft
          /\ pc = "collect" => (pc' = "playing" /\ i' = i)
          /\ pc = "playing" => (pc' = "augment" /\ i' = i)
          /\ pc = "augment" => (pc' = "update" /\ i' = i)
          /\ pc = "update" => (pc' \in {"train", "save"} /\ i' = i)
          /\ pc = "train" => (pc' \in {"train", "adapt"} /\ i' = i)
          /\ pc = "adapt" => (pc' = "return_update" /\ i' = i)
          /\ pc = "return_update" => (pc' = "save" /\ i' = i)
          /\ pc = "save" =>
               /\ pc' = "evaluate" /\ i' = i
               /\ (save_model' = "current_policy") = ((i + 1) % 50 = 0)
          /\ pc = "evaluate" =>
               /\ pc' = IF (i + 1) % check_freq = 0 THEN "judge" ELSE "next"
               /\ i' = i
          /\ pc = "judge" =>
               /\ pc' = IF win_ratio > best_win_ratio
                          THEN "save_best" ELSE "next"
               /\ i' = i
          /\ pc = "save_best" =>
               /\ pc' = "escalate" /\ i' = i
               /\ save_model' = <<"best_policy", i>>
          /\ pc = "escalate" => (pc' = "next" /\ i' = i)
          /\ pc = "next" => CycleAdvances]_vars

CyclesInOrderWitness ==
  /\ pc = "done"
  /\ game_batch_num = 50
  /\ Len(files_played) = 50
  /\ best_win_ratio > 0

\* C19: in a cycle whose buffer holds at most batch_size samples after the
\* collection the update is skipped: no train step is taken and the
\* multiplier stays as it is, while the routine checkpoint and the
\* evaluation keep their schedule.
SkippedUpdateKeepsSchedule ==
  [][(/\ Len(data_buffer) <= batch_size
      /\ pc \in {"update", "save", "evaluate"}
      /\ pc' # "quit") =>
       /\ lr_multiplier' = lr_multiplier
       /\ epoch = 0 /\ epoch' = 0
       /\ mini_batch' = {}
       /\ run_loss' = run_loss
       /\ pc = "update" => pc' = "save"
       /\ pc = "save" =>
            /\ pc' = "evaluate"
            /\ (save_model' = "current_policy") = ((i + 1) % 50 = 0)
       /\ pc = "evaluate" => ((pc' = "judge") = ((i + 1) % check_freq = 0))]_vars

SkippedUpdateWitness ==
  /\ pc = "judge"
  /\ i = 0
  /\ Len(data_buffer) = batch_size
  /\ lr_multiplier = conf.lr_multiplier
  /\ win_ratio = 100

\* C20: every train step of one policy_update is given the same learning
\* rate, learn_rate * lr_multiplier as the multiplier was when the update
\* began; the multiplier is changed by the adaptation after the loop only,
\* once, by a single factor of 1.5 up or down, or not at all.
UpdateUsesOneLearningRate ==
  /\ [](pc \in {"train", "adapt"} =>
          learn_rate[1] * conf.learn_rate[2] * lr_multiplier[2] =
            learn_rate[2] * conf.learn_rate[1] * lr_multiplier[1])
  /\ [][/\ pc = "train" => learn_rate' = learn_rate
        /\ pc # "adapt" => lr_multiplier' = lr_multiplier
        /\ pc = "adapt" =>
             \/ lr_multiplier' = lr_multiplier
             \/ IsQuotient(lr_multiplier', lr_multiplier, 2, 3)
             \/ IsQuotient(lr_multiplier', lr_multiplier, 3, 2)]_vars

UpdateUsesOneLearningRateWitness ==
  /\ pc = "train"
  /\ epoch = 1
  /\ lr_multiplier = <<2, 3>>
  /\ learn_rate = <<1, 750>>

\* the plane shows the vector as the board shows a move
ShowsProb(plane, prob, h, w) == plane = flipud(reshape(prob, h, w))

\* C18: get_equi_data transforms the state and the probability vector
\* consistently: where a plane of the input state is the vertical flip of
\* the input probability vector reshaped to H x W, the same plane of each of
\* the 8 outputs is the vertical flip of that output's probability vector
\* reshaped to H x W.
MoveRelationPreserved ==
  pc = "equi_done" =>
    \A t \in 1..Len(equi_in) : \A p \in 1..Len(equi_in[t][1]) :
      ShowsProb(equi_in[t][1][p], equi_in[t][2], board_height, board_width)
        => \A j \in 1..8 :
             LET o == equi_out[8 * (t - 1) + j]
             IN  ShowsProb(o[1][p], o[2], board_height, board_width)

====
